---- MODULE Spec2Model ----
(***************************************************************************)
(* Cooling loop controller (CoolingLoopControl_V1.1.cpp): the PID          *)
(* regulator, the voltage-to-temperature step curve, the OFF / ON /        *)
(* SAFETY_SHUTDOWN state machine of main's control loop and the CAN status *)
(* frame encoder.                                                          *)
(*                                                                         *)
(* Number representation.  Temperatures, setpoints and thresholds are      *)
(* whole degrees Celsius (every value interpolateTemperature returns is    *)
(* one).  Voltages are millivolts; the float a voltage is stored in and    *)
(* the double literal it is compared with are told apart in FloatGE.       *)
(* Speeds and regulator outputs are hundredths of a percent (Scale), and   *)
(* gains are hundredths, so that Kp*e + Ki*I + Kd*d is computed exactly.   *)
(***************************************************************************)
EXTENDS Integers, Sequences, FiniteSets, TLC

\* ------------------------------------------------------------------ bounds
MaxTicks == 4          \* loop iterations explored
MaxCalls == 3          \* compute calls explored on one PIDController
VoltStep == 50         \* grid step (mV) of interpolateTemperature inputs
SpeedStep == 25        \* grid step (hundredths of a percent) of encoder inputs

\* --------------------------------------------------------------- constants
Scale == 100           \* fixed-point units per percent / per unit of gain
CANID == 419381391     \* 0x18FF408F
DLC == 8

PumpGains == [Kp |-> 50, Ki |-> 10, Kd |-> 5]    \* 0.5f, 0.1f, 0.05f
FanGains == [Kp |-> 40, Ki |-> 10, Kd |-> 3]    \* 0.4f, 0.1f, 0.03f
TestGains == [Kp |-> 100, Ki |-> 10, Kd |-> 1]   \* 1.0, 0.1f, 0.01f

DefaultSetpoint == 50
DefaultThreshold == 70

\* Configurations explored (argv[1], argv[2]); the defaults are among them.
Setpoints == {DefaultSetpoint, 150}
Thresholds == {DefaultThreshold, 120}

\* Voltages (mV) the transducer input is drawn from when inputs are real.
Voltages == {500, 1000, 2000, 3000, 4800}
\* Voltages of the emulated sensor: 1.0f + rand() % 3.
SimVoltages == {1000, 2000, 3000}

VARIABLES
    simulated,            \* TRUE: inputs are the emulated ones of main
    tempSetpoint, safetyThreshold,
    pumpPID, fanPID,      \* [Kp, Ki, Kd, prevError, integral]
    ignitionSwitch, sensorVoltage, levelSwitch, measuredTemperature,
    pumpSpeed, fanSpeed,
    currentState,
    pc,                   \* "switch", "sleep", "can", "exited"
    exitCode,
    tick,                 \* loop iterations started
    tickState,            \* state the current iteration was evaluated in
    pumpOut, fanOut,      \* regulator outputs of this iteration, unclamped
    cmds,                 \* actuator calls of this iteration, in order
    frames,               \* frames emitted in this iteration, in order
    steps,                \* steps of this iteration, in order
    measuredLog,          \* temperatures of the regulated iterations so far
    pid, pidOut, pidCalls,      \* a PIDController driven call by call
    encPump, encFan, encMsgs,   \* CANcontrol called on its own
    itV1, itV2, itTemps         \* interpolateTemperature called on its own

mainVars == <<simulated, tempSetpoint, safetyThreshold, pumpPID, fanPID,
              ignitionSwitch, sensorVoltage, levelSwitch, measuredTemperature,
              pumpSpeed, fanSpeed, currentState, pc, exitCode, tick,
              tickState, pumpOut, fanOut, cmds, frames, steps, measuredLog>>
unitVars == <<pid, pidOut, pidCalls, encPump, encFan, encMsgs,
              itV1, itV2, itTemps>>
vars == <<mainVars, unitVars>>

\* ------------------------------------------------------------ PIDController
PIDController(g) ==
    [Kp |-> g.Kp, Ki |-> g.Ki, Kd |-> g.Kd, prevError |-> 0, integral |-> 0]

\* compute with the output taken from the integral before the current error
\* is added to it.
compute_StaleIntegral(self, setpoint, measuredValue) ==
    LET error == setpoint - measuredValue
        integral == self.integral + error
        derivative == error - self.prevError
    IN  [self |-> [self EXCEPT !.integral = integral, !.prevError = error],
         out |-> (self.Kp * error) + (self.Ki * self.integral)
                    + (self.Kd * derivative)]

\* compute with the error taken as measured minus setpoint.
compute_ReversedError(self, setpoint, measuredValue) ==
    LET error == measuredValue - setpoint
        integral == self.integral + error
        derivative == error - self.prevError
    IN  [self |-> [self EXCEPT !.integral = integral, !.prevError = error],
         out |-> (self.Kp * error) + (self.Ki * integral)
                    + (self.Kd * derivative)]

\* self: the instance before the call; the result: the instance after it
\* and the value returned.
compute(self, setpoint, measuredValue) ==
    LET error == setpoint - measuredValue
        integral == self.integral + error
        derivative == error - self.prevError
    IN  [self |-> [self EXCEPT !.integral = integral, !.prevError = error],
         out |-> (self.Kp * error) + (self.Ki * integral)
                    + (self.Kd * derivative)]

\* --------------------------------------------------- interpolateTemperature
RECURSIVE Pow2(_)
Pow2(n) == IF n = 0 THEN 1 ELSE 2 * Pow2(n - 1)

\* Fractional bits of the float holding mv/1000 volts (24-bit significand).
FloatFracBits(mv) ==
    IF mv >= 4000 THEN 21
    ELSE IF mv >= 2000 THEN 22
    ELSE IF mv >= 1000 THEN 23
    ELSE IF mv >= 500 THEN 24
    ELSE 25

\* Significand of float(mv/1000): mv * 2^k / 1000 rounded to nearest, ties
\* to even, computed as mv * 2^(k-3) / 125.
FloatSig(mv) ==
    LET n == mv * Pow2(FloatFracBits(mv) - 3)
        q == n \div 125
        r == n % 125
    IN  IF 2 * r > 125 \/ (2 * r = 125 /\ q % 2 = 1) THEN q + 1 ELSE q

\* voltage >= literal, the voltage a float and the literal a double: the
\* float is widened unchanged, the double is the decimal to within 2^-53.
FloatGE(mv, lit) ==
    IF mv # lit THEN mv > lit
    ELSE FloatSig(mv) * 125 >= lit * Pow2(FloatFracBits(mv) - 3)

\* The table with the rows of 1.915 V and 1.212 V exchanged.
interpolateTemperature_RowsSwapped(voltage) ==
    IF FloatGE(voltage, 4771) THEN -20
    ELSE IF FloatGE(voltage, 4642) THEN -10
    ELSE IF FloatGE(voltage, 4438) THEN 0
    ELSE IF FloatGE(voltage, 4141) THEN 10
    ELSE IF FloatGE(voltage, 3751) THEN 20
    ELSE IF FloatGE(voltage, 3325) THEN 30
    ELSE IF FloatGE(voltage, 2838) THEN 40
    ELSE IF FloatGE(voltage, 2500) THEN 50
    ELSE IF FloatGE(voltage, 1915) THEN 80
    ELSE IF FloatGE(voltage, 1212) THEN 60
    ELSE IF FloatGE(voltage, 749) THEN 100
    ELSE 120

\* The table without its default: below 0.749 V the last row's value.
interpolateTemperature_NoDefault(voltage) ==
    IF FloatGE(voltage, 4771) THEN -20
    ELSE IF FloatGE(voltage, 4642) THEN -10
    ELSE IF FloatGE(voltage, 4438) THEN 0
    ELSE IF FloatGE(voltage, 4141) THEN 10
    ELSE IF FloatGE(voltage, 3751) THEN 20
    ELSE IF FloatGE(voltage, 3325) THEN 30
    ELSE IF FloatGE(voltage, 2838) THEN 40
    ELSE IF FloatGE(voltage, 2500) THEN 50
    ELSE IF FloatGE(voltage, 1915) THEN 60
    ELSE IF FloatGE(voltage, 1212) THEN 80
    ELSE 100

interpolateTemperature(voltage) ==
    IF FloatGE(voltage, 4771) THEN -20
    ELSE IF FloatGE(voltage, 4642) THEN -10
    ELSE IF FloatGE(voltage, 4438) THEN 0
    ELSE IF FloatGE(voltage, 4141) THEN 10
    ELSE IF FloatGE(voltage, 3751) THEN 20
    ELSE IF FloatGE(voltage, 3325) THEN 30
    ELSE IF FloatGE(voltage, 2838) THEN 40
    ELSE IF FloatGE(voltage, 2500) THEN 50
    ELSE IF FloatGE(voltage, 1915) THEN 60
    ELSE IF FloatGE(voltage, 1212) THEN 80
    ELSE IF FloatGE(voltage, 749) THEN 100
    ELSE 120

\* ---------------------------------------------------------------- actuators
controlPump(speed) == [dev |-> "pump", speed |-> speed]
controlFan(speed) == [dev |-> "fan", speed |-> speed]

\* safetyShutdown taking the state by value: the caller's state stays ON.
safetyShutdown_ByValue == "ON"

safetyShutdown == "SAFETY_SHUTDOWN"

\* Clamp without the upper limit.
Clamp_NoUpperLimit(x) == IF x < 0 THEN 0 ELSE x

\* Outputs to valid ranges (0-100%)
Clamp(x) == IF x < 0 THEN 0 ELSE IF x > 100 * Scale THEN 100 * Scale ELSE x

\* --------------------------------------------------------------- CANcontrol
\* static_cast<unsigned char>(x) of the float x = speed / 100 * 255: the
\* fraction is discarded; a truncated value outside 0..255 is undefined
\* behaviour, any byte may result.
\* The scaled value rounded to nearest instead of truncated.
ScaleTo255_Rounded(speed) == (speed * 255 + 50 * Scale) \div (100 * Scale)

ScaleTo255(speed) == (speed * 255) \div (100 * Scale)

ToUChar(speed) ==
    LET t == IF speed >= 0 THEN ScaleTo255(speed) ELSE -ScaleTo255(-speed)
    IN  IF t \in 0..255 THEN {t} ELSE 0..255

\* The pump byte written one offset too far.
CANmsg_PumpAtOffset3(b2, b6) ==
    [id |-> CANID,
     data |-> [i \in 1..DLC |-> IF i = 3 + 1 THEN b2
                                ELSE IF i = 6 + 1 THEN b6 ELSE 0]]

\* unsigned char msg[DLC] = {0}; msg[2] = ...; msg[6] = ...;
CANmsg(b2, b6) ==
    [id |-> CANID,
     data |-> [i \in 1..DLC |-> IF i = 2 + 1 THEN b2
                                ELSE IF i = 6 + 1 THEN b6 ELSE 0]]

CANcontrol(pSpeed, fSpeed) ==
    {CANmsg(b2, b6) : b2 \in ToUChar(pSpeed), b6 \in ToUChar(fSpeed)}

\* Byte of a frame at a 0-based offset.
Byte(frame, offset) == frame.data[offset + 1]

\* ------------------------------------------------------------------- inputs
IgnitionInputs == IF simulated THEN {~ignitionSwitch} ELSE BOOLEAN
VoltageInputs == IF simulated THEN SimVoltages ELSE Voltages
LevelInputs == IF simulated THEN {levelSwitch} ELSE BOOLEAN

\* --------------------------------------------------------------------- main
\* No unit under test: the variables of the unit specifications at rest.
UnitIdle ==
    /\ pid = PIDController(PumpGains)
    /\ pidOut = 0
    /\ pidCalls = <<>>
    /\ encPump = 0
    /\ encFan = 0
    /\ encMsgs = <<>>
    /\ itV1 = 0
    /\ itV2 = 0
    /\ itTemps = <<>>

\* main up to the loop, for the given input mode and configuration.
MainInit(sim, setpoints, thresholds) ==
    /\ simulated = sim
    /\ tempSetpoint \in setpoints
    /\ safetyThreshold \in thresholds
    /\ pumpPID = PIDController(PumpGains)
    /\ fanPID = PIDController(FanGains)
    /\ ignitionSwitch = FALSE
    /\ sensorVoltage = 0
    /\ levelSwitch = TRUE
    /\ measuredTemperature = 0
    /\ pumpSpeed = 0
    /\ fanSpeed = 0
    /\ currentState = "OFF"
    /\ pc = "switch"
    /\ exitCode = -1
    /\ tick = 0
    /\ tickState = "none"
    /\ pumpOut = 0
    /\ fanOut = 0
    /\ cmds = <<>>
    /\ frames = <<>>
    /\ steps = <<>>
    /\ measuredLog = <<>>

Init ==
    /\ \E sim \in BOOLEAN : MainInit(sim, Setpoints, Thresholds)
    /\ UnitIdle

\* The OFF case switching ON without looking at the ignition input.
OFFtransition_AlwaysOn(ign) == "ON"

\* case OFF: if (ignitionSwitch) currentState = ON, else it remains OFF.
OFFtransition(ign) == IF ign THEN "ON" ELSE "OFF"

\* The overtemperature test taken at the threshold too.
Overtemperature_AtThreshold(temp, threshold) == temp >= threshold

\* Safety shutdown if temperature exceeds critical threshold
Overtemperature(temp, threshold) == temp > threshold

\* The loop is explored for MaxTicks iterations; past them only the
\* iterations that end regulation (a shutdown, the return) are.
WithinBound == tick < MaxTicks

\* Entering the switch statement starts a loop iteration.
EnterSwitch(state) ==
    /\ pc = "switch"
    /\ currentState = state
    /\ tick' = tick + 1
    /\ tickState' = state
    /\ frames' = <<>>
    /\ steps' = <<"switch">>
    /\ UNCHANGED unitVars

CaseOFF ==
    /\ EnterSwitch("OFF")
    /\ WithinBound
    /\ \E ign \in IgnitionInputs :
          /\ ignitionSwitch' = ign
          /\ currentState' = OFFtransition(ign)
    /\ cmds' = <<>>
    /\ pc' = "sleep"
    /\ UNCHANGED <<simulated, tempSetpoint, safetyThreshold, pumpPID, fanPID,
                   sensorVoltage, levelSwitch, measuredTemperature,
                   pumpSpeed, fanSpeed, exitCode, pumpOut, fanOut,
                   measuredLog>>

\* The ON case with the regulators run before the coolant level is checked.
CaseON_RegulateBeforeLevelCheck ==
    /\ EnterSwitch("ON")
    /\ \E v \in VoltageInputs, lvl \in LevelInputs :
        LET temp == interpolateTemperature(v)
            p == compute(pumpPID, tempSetpoint, temp)
            f == compute(fanPID, tempSetpoint, temp)
        IN  /\ WithinBound \/ ~lvl \/ Overtemperature(temp, safetyThreshold)
            /\ sensorVoltage' = v
            /\ levelSwitch' = lvl
            /\ measuredTemperature' = temp
            /\ IF ~lvl
               THEN /\ cmds' = <<controlPump(0), controlFan(0)>>
                    /\ currentState' = safetyShutdown
                    /\ pumpPID' = p.self
                    /\ fanPID' = f.self
                    /\ UNCHANGED <<pumpSpeed, fanSpeed, pumpOut, fanOut,
                                   measuredLog>>
               ELSE /\ measuredLog' = Append(measuredLog, temp)
                    /\ pumpPID' = p.self
                    /\ fanPID' = f.self
                    /\ pumpOut' = p.out
                    /\ fanOut' = f.out
                    /\ pumpSpeed' = Clamp(p.out)
                    /\ fanSpeed' = Clamp(f.out)
                    /\ IF Overtemperature(temp, safetyThreshold)
                       THEN /\ cmds' = <<controlPump(Clamp(p.out)),
                                         controlFan(Clamp(f.out)),
                                         controlPump(0), controlFan(0)>>
                            /\ currentState' = safetyShutdown
                       ELSE /\ cmds' = <<controlPump(Clamp(p.out)),
                                         controlFan(Clamp(f.out))>>
                            /\ currentState' = "ON"
    /\ pc' = "sleep"
    /\ UNCHANGED <<simulated, tempSetpoint, safetyThreshold, ignitionSwitch,
                   exitCode>>

\* The ON case with the fan regulator's arguments exchanged.
CaseON_FanArgumentsSwapped ==
    /\ EnterSwitch("ON")
    /\ \E v \in VoltageInputs, lvl \in LevelInputs :
        LET temp == interpolateTemperature(v)
            p == compute(pumpPID, tempSetpoint, temp)
            f == compute(fanPID, temp, tempSetpoint)
        IN  /\ WithinBound \/ ~lvl \/ Overtemperature(temp, safetyThreshold)
            /\ sensorVoltage' = v
            /\ levelSwitch' = lvl
            /\ measuredTemperature' = temp
            /\ IF ~lvl
               THEN /\ cmds' = <<controlPump(0), controlFan(0)>>
                    /\ currentState' = safetyShutdown
                    /\ UNCHANGED <<pumpPID, fanPID, pumpSpeed, fanSpeed,
                                   pumpOut, fanOut, measuredLog>>
               ELSE /\ measuredLog' = Append(measuredLog, temp)
                    /\ pumpPID' = p.self
                    /\ fanPID' = f.self
                    /\ pumpOut' = p.out
                    /\ fanOut' = f.out
                    /\ pumpSpeed' = Clamp(p.out)
                    /\ fanSpeed' = Clamp(f.out)
                    /\ IF Overtemperature(temp, safetyThreshold)
                       THEN /\ cmds' = <<controlPump(Clamp(p.out)),
                                         controlFan(Clamp(f.out)),
                                         controlPump(0), controlFan(0)>>
                            /\ currentState' = safetyShutdown
                       ELSE /\ cmds' = <<controlPump(Clamp(p.out)),
                                         controlFan(Clamp(f.out))>>
                            /\ currentState' = "ON"
    /\ pc' = "sleep"
    /\ UNCHANGED <<simulated, tempSetpoint, safetyThreshold, ignitionSwitch,
                   exitCode>>

CaseON ==
    /\ EnterSwitch("ON")
    /\ \E v \in VoltageInputs, lvl \in LevelInputs :
        LET temp == interpolateTemperature(v)
            p == compute(pumpPID, tempSetpoint, temp)
            f == compute(fanPID, tempSetpoint, temp)
        IN  /\ WithinBound \/ ~lvl \/ Overtemperature(temp, safetyThreshold)
            /\ sensorVoltage' = v
            /\ levelSwitch' = lvl
            /\ measuredTemperature' = temp
            /\ IF ~lvl
               THEN /\ cmds' = <<controlPump(0), controlFan(0)>>
                    /\ currentState' = safetyShutdown
                    /\ UNCHANGED <<pumpPID, fanPID, pumpSpeed, fanSpeed,
                                   pumpOut, fanOut, measuredLog>>
               ELSE /\ measuredLog' = Append(measuredLog, temp)
                    /\ pumpPID' = p.self
                    /\ fanPID' = f.self
                    /\ pumpOut' = p.out
                    /\ fanOut' = f.out
                    /\ pumpSpeed' = Clamp(p.out)
                    /\ fanSpeed' = Clamp(f.out)
                    /\ IF Overtemperature(temp, safetyThreshold)
                       THEN /\ cmds' = <<controlPump(Clamp(p.out)),
                                         controlFan(Clamp(f.out)),
                                         controlPump(0), controlFan(0)>>
                            /\ currentState' = safetyShutdown
                       ELSE /\ cmds' = <<controlPump(Clamp(p.out)),
                                         controlFan(Clamp(f.out))>>
                            /\ currentState' = "ON"
    /\ pc' = "sleep"
    /\ UNCHANGED <<simulated, tempSetpoint, safetyThreshold, ignitionSwitch,
                   exitCode>>

\* The SAFETY_SHUTDOWN case restarting the loop in OFF instead of returning.
CaseSAFETY_SHUTDOWN_Restart ==
    /\ EnterSwitch("SAFETY_SHUTDOWN")
    /\ cmds' = <<>>
    /\ currentState' = "OFF"
    /\ pc' = "sleep"
    /\ UNCHANGED <<simulated, tempSetpoint, safetyThreshold, pumpPID, fanPID,
                   ignitionSwitch, sensorVoltage, levelSwitch,
                   measuredTemperature, pumpSpeed, fanSpeed, exitCode,
                   pumpOut, fanOut, measuredLog>>

\* The SAFETY_SHUTDOWN case ending in break instead of return.
CaseSAFETY_SHUTDOWN_Break ==
    /\ EnterSwitch("SAFETY_SHUTDOWN")
    /\ cmds' = <<>>
    /\ pc' = "sleep"
    /\ UNCHANGED <<simulated, tempSetpoint, safetyThreshold, pumpPID, fanPID,
                   ignitionSwitch, sensorVoltage, levelSwitch,
                   measuredTemperature, pumpSpeed, fanSpeed, currentState,
                   exitCode, pumpOut, fanOut, measuredLog>>

\* The SAFETY_SHUTDOWN case returning 1.
CaseSAFETY_SHUTDOWN_ReturnOne ==
    /\ EnterSwitch("SAFETY_SHUTDOWN")
    /\ cmds' = <<>>
    /\ pc' = "exited"
    /\ exitCode' = 1
    /\ UNCHANGED <<simulated, tempSetpoint, safetyThreshold, pumpPID, fanPID,
                   ignitionSwitch, sensorVoltage, levelSwitch,
                   measuredTemperature, pumpSpeed, fanSpeed, currentState,
                   pumpOut, fanOut, measuredLog>>

CaseSAFETY_SHUTDOWN ==
    /\ EnterSwitch("SAFETY_SHUTDOWN")
    /\ cmds' = <<>>
    /\ pc' = "exited"
    /\ exitCode' = 0
    /\ UNCHANGED <<simulated, tempSetpoint, safetyThreshold, pumpPID, fanPID,
                   ignitionSwitch, sensorVoltage, levelSwitch,
                   measuredTemperature, pumpSpeed, fanSpeed, currentState,
                   pumpOut, fanOut, measuredLog>>

\* The tail of the loop with its two statements exchanged: CANcontrol, then
\* sleep_for.
SleepFor_FrameFirst ==
    /\ pc = "sleep"
    /\ \E m \in CANcontrol(pumpSpeed, fanSpeed) :
          frames' = Append(frames, [pump |-> pumpSpeed, fan |-> fanSpeed,
                                    msg |-> m])
    /\ steps' = steps \o <<"frame", "sleep">>
    /\ pc' = "switch"
    /\ UNCHANGED <<simulated, tempSetpoint, safetyThreshold, pumpPID, fanPID,
                   ignitionSwitch, sensorVoltage, levelSwitch,
                   measuredTemperature, pumpSpeed, fanSpeed, currentState,
                   exitCode, tick, tickState, pumpOut, fanOut, cmds,
                   measuredLog, unitVars>>

SleepFor ==
    /\ pc = "sleep"
    /\ pc' = "can"
    /\ steps' = Append(steps, "sleep")
    /\ UNCHANGED <<simulated, tempSetpoint, safetyThreshold, pumpPID, fanPID,
                   ignitionSwitch, sensorVoltage, levelSwitch,
                   measuredTemperature, pumpSpeed, fanSpeed, currentState,
                   exitCode, tick, tickState, pumpOut, fanOut, cmds, frames,
                   measuredLog, unitVars>>

CANstep ==
    /\ pc = "can"
    /\ \E m \in CANcontrol(pumpSpeed, fanSpeed) :
          frames' = Append(frames, [pump |-> pumpSpeed, fan |-> fanSpeed,
                                    msg |-> m])
    /\ pc' = "switch"
    /\ steps' = Append(steps, "frame")
    /\ UNCHANGED <<simulated, tempSetpoint, safetyThreshold, pumpPID, fanPID,
                   ignitionSwitch, sensorVoltage, levelSwitch,
                   measuredTemperature, pumpSpeed, fanSpeed, currentState,
                   exitCode, tick, tickState, pumpOut, fanOut, cmds,
                   measuredLog, unitVars>>

Next == CaseOFF \/ CaseON \/ CaseSAFETY_SHUTDOWN \/ SleepFor \/ CANstep

Spec == Init /\ [][Next]_vars

\* ------------------------------------- main with its emulated inputs only
\* The default threshold, the emulated ignition, level and voltage.  The
\* loop keeps running (WF on Next), and rand() % 3 does not avoid a value
\* for ever: the choice of the voltage that is over the threshold is
\* strongly fair.
InitSim ==
    /\ MainInit(TRUE, Setpoints, {DefaultThreshold})
    /\ UnitIdle

OvertemperatureTick ==
    CaseON /\ Overtemperature(measuredTemperature', safetyThreshold)

SpecSim ==
    InitSim /\ [][Next]_vars /\ WF_vars(Next) /\ SF_vars(OvertemperatureTick)

\* ------------------------------------------- PIDController, call by call
PIDSetpoints == {45, 50}
PIDMeasured == {45, 50, 60}

InitPID ==
    /\ MainInit(TRUE, {DefaultSetpoint}, {DefaultThreshold})
    /\ pid \in {PIDController(g) : g \in {PumpGains, FanGains, TestGains}}
    /\ pidOut = 0
    /\ pidCalls = <<>>
    /\ encPump = 0
    /\ encFan = 0
    /\ encMsgs = <<>>
    /\ itV1 = 0
    /\ itV2 = 0
    /\ itTemps = <<>>

ComputeCall ==
    /\ Len(pidCalls) < MaxCalls
    /\ \E sp \in PIDSetpoints, mv \in PIDMeasured :
          LET r == compute(pid, sp, mv)
          IN  /\ pid' = r.self
              /\ pidOut' = r.out
              /\ pidCalls' = Append(pidCalls, <<sp, mv>>)
    /\ UNCHANGED <<mainVars, encPump, encFan, encMsgs, itV1, itV2, itTemps>>

NextPID == ComputeCall

SpecPID == InitPID /\ [][NextPID]_vars

\* ------------------------------------------------- CANcontrol, on its own
\* Speeds in [0, 100] percent on a grid, with the end points and the middle.
SpeedGrid ==
    {s \in 0..(100 * Scale) : s % SpeedStep = 0} \cup {0, 50 * Scale, 100 * Scale}
FanSamples == {0, 1, 50 * Scale, 100 * Scale - 1, 100 * Scale}

InitCAN ==
    /\ MainInit(TRUE, {DefaultSetpoint}, {DefaultThreshold})
    /\ pid = PIDController(PumpGains)
    /\ pidOut = 0
    /\ pidCalls = <<>>
    /\ encPump \in SpeedGrid
    /\ encFan \in FanSamples
    /\ encMsgs = <<>>
    /\ itV1 = 0
    /\ itV2 = 0
    /\ itTemps = <<>>

CANcall ==
    /\ encMsgs = <<>>
    /\ \E m \in CANcontrol(encPump, encFan) : encMsgs' = <<m>>
    /\ UNCHANGED <<mainVars, pid, pidOut, pidCalls, encPump, encFan,
                   itV1, itV2, itTemps>>

NextCAN == CANcall

SpecCAN == InitCAN /\ [][NextCAN]_vars

\* ------------------------------------- interpolateTemperature, on its own
\* The literals of the table, in mV.
Breakpoints == {4771, 4642, 4438, 4141, 3751, 3325, 2838, 2500, 1915, 1212, 749}

\* Voltages 0..5 V on a grid, with every breakpoint and its two neighbours.
InterpVoltages ==
    {v \in 0..5000 : v % VoltStep = 0} \cup {100}
        \cup Breakpoints \cup {b - 1 : b \in Breakpoints}
        \cup {b + 1 : b \in Breakpoints}

InitInterp ==
    /\ MainInit(TRUE, {DefaultSetpoint}, {DefaultThreshold})
    /\ pid = PIDController(PumpGains)
    /\ pidOut = 0
    /\ pidCalls = <<>>
    /\ encPump = 0
    /\ encFan = 0
    /\ encMsgs = <<>>
    /\ itV1 \in InterpVoltages
    /\ itV2 \in {v \in InterpVoltages : v >= itV1}
    /\ itTemps = <<>>

InterpolateCall ==
    /\ itTemps = <<>>
    /\ itTemps' = <<interpolateTemperature(itV1), interpolateTemperature(itV2)>>
    /\ UNCHANGED <<mainVars, pid, pidOut, pidCalls, encPump, encFan, encMsgs,
                   itV1, itV2>>

NextInterp == InterpolateCall

SpecInterp == InitInterp /\ [][NextInterp]_vars

TypeOK ==
    /\ currentState \in {"OFF", "ON", "SAFETY_SHUTDOWN"}
    /\ pc \in {"switch", "sleep", "can", "exited"}
    /\ tick \in 0..(MaxTicks + 2)

\* ================================================================== claims
Percent100 == 100 * Scale

\* The iteration under way (or just finished) was evaluated in ON and read
\* a sufficient coolant level, so both regulators ran in it.
RegulatedTick == tickState = "ON" /\ levelSwitch

\* v is the regulator output raw as the loop applies it.
Applied(raw, v) ==
    \/ raw < 0 /\ v = 0
    \/ raw > Percent100 /\ v = Percent100
    \/ raw >= 0 /\ raw <= Percent100 /\ v = raw

PumpCmd(v) == [dev |-> "pump", speed |-> v]
FanCmd(v) == [dev |-> "fan", speed |-> v]

\* C1: SAFETY_SHUTDOWN is latched: once the state is SAFETY_SHUTDOWN it is
\* never ON or OFF again, whatever the inputs.
C1_ShutdownLatched ==
    [][currentState = "SAFETY_SHUTDOWN"
          => currentState' = "SAFETY_SHUTDOWN"]_vars

C1_Witness == currentState = "SAFETY_SHUTDOWN" /\ pc = "exited"

\* C2: an ON tick that reads an insufficient coolant level issues exactly
\* pump = 0 and fan = 0 and ends in SAFETY_SHUTDOWN, whatever the voltage
\* and the regulators' history.
C2_LowCoolantShutdown ==
    (tickState = "ON" /\ ~levelSwitch)
        => /\ cmds = <<PumpCmd(0), FanCmd(0)>>
           /\ currentState = "SAFETY_SHUTDOWN"

C2_Witness ==
    /\ tickState = "ON" /\ ~levelSwitch
    /\ pumpPID.integral # 0 /\ pumpSpeed > 0
    /\ cmds = <<PumpCmd(0), FanCmd(0)>>

\* C3: an ON tick with sufficient coolant and a measured temperature above
\* the threshold applies this tick's clamped regulator commands first and
\* (0,0) last, and ends in SAFETY_SHUTDOWN; with a temperature at or below
\* the threshold the state stays ON.
C3_OvertemperatureAfterControl ==
    /\ (RegulatedTick /\ measuredTemperature > safetyThreshold)
          => /\ Len(cmds) = 4
             /\ cmds[1].dev = "pump" /\ Applied(pumpOut, cmds[1].speed)
             /\ cmds[2].dev = "fan" /\ Applied(fanOut, cmds[2].speed)
             /\ cmds[3] = PumpCmd(0)
             /\ cmds[4] = FanCmd(0)
             /\ currentState = "SAFETY_SHUTDOWN"
    /\ (RegulatedTick /\ measuredTemperature <= safetyThreshold)
          => currentState = "ON"

C3_Witness ==
    /\ RegulatedTick /\ measuredTemperature > safetyThreshold
    /\ Len(cmds) = 4 /\ cmds[1].speed > 0 /\ cmds[2].speed > 0
    /\ currentState = "SAFETY_SHUTDOWN"

\* C4: every value handed to controlPump, controlFan or CANcontrol lies in
\* [0, 100]; a regulator output below 0 is applied as 0, one above 100 as
\* 100, one inside [0, 100] unchanged.
C4_CommandsClamped ==
    /\ \A i \in DOMAIN cmds : cmds[i].speed \in 0..Percent100
    /\ \A i \in DOMAIN frames :
          frames[i].pump \in 0..Percent100 /\ frames[i].fan \in 0..Percent100
    /\ pc = "can" => (pumpSpeed \in 0..Percent100 /\ fanSpeed \in 0..Percent100)
    /\ RegulatedTick
          => /\ Len(cmds) >= 2
             /\ cmds[1].dev = "pump" /\ Applied(pumpOut, cmds[1].speed)
             /\ cmds[2].dev = "fan" /\ Applied(fanOut, cmds[2].speed)

C4_Witness ==
    /\ RegulatedTick
    /\ pumpOut > Percent100 /\ cmds[1].speed = Percent100
    /\ fanOut \in 1..(Percent100 - 1) /\ cmds[2].speed = fanOut

\* C5 as stated: every tick, whatever the state it is evaluated in, ends
\* with exactly one frame emitted.
C5_FrameEveryTick ==
    (pc \in {"switch", "exited"} /\ tick > 0) => Len(frames) = 1

\* C5, amended: a tick evaluated in OFF or in ON ends with exactly one frame
\* emitted; the tick evaluated in SAFETY_SHUTDOWN leaves the loop without
\* emitting a frame.
C5_FrameEveryRunningTick ==
    /\ (pc = "switch" /\ tick > 0)
          => (tickState \in {"OFF", "ON"} /\ Len(frames) = 1)
    /\ pc \in {"sleep", "can"} => frames = <<>>
    /\ pc = "exited" => (tickState = "SAFETY_SHUTDOWN" /\ frames = <<>>)

C5_Witness ==
    pc = "exited" /\ tickState = "SAFETY_SHUTDOWN" /\ frames = <<>>

\* C6: every frame emitted at or after the tick that enters SAFETY_SHUTDOWN
\* carries 0 at offset 2 (pump) and 0 at offset 6 (fan).
C6_ShutdownFramesZeroed ==
    currentState = "SAFETY_SHUTDOWN"
        => \A i \in DOMAIN frames :
              Byte(frames[i].msg, 2) = 0 /\ Byte(frames[i].msg, 6) = 0

\* b is speed / 100 * 255 rounded to the nearest integer (halves up).
RoundedByte(speed, b) ==
    /\ 2 * speed * 255 >= (2 * b - 1) * Percent100
    /\ 2 * speed * 255 < (2 * b + 1) * Percent100

\* b is speed / 100 * 255 with the fraction discarded.
TruncatedByte(speed, b) ==
    /\ speed * 255 >= b * Percent100
    /\ speed * 255 < (b + 1) * Percent100

\* C7 as stated: for speeds in [0, 100] the bytes at offsets 2 and 6 are
\* speed / 100 * 255 rounded to nearest; encode(50.0, 0.0) gives 128 and 0.
C7_BytesRounded ==
    \A i \in DOMAIN encMsgs :
        /\ RoundedByte(encPump, Byte(encMsgs[i], 2))
        /\ RoundedByte(encFan, Byte(encMsgs[i], 6))
        /\ (encPump = 50 * Scale /\ encFan = 0)
              => (Byte(encMsgs[i], 2) = 128 /\ Byte(encMsgs[i], 6) = 0)

\* C7, amended: for speeds in [0, 100] the bytes at offsets 2 and 6 are
\* speed / 100 * 255 with the fraction discarded; encode(50.0, 0.0) gives
\* 127 and 0.
C7_BytesTruncated ==
    \A i \in DOMAIN encMsgs :
        /\ TruncatedByte(encPump, Byte(encMsgs[i], 2))
        /\ TruncatedByte(encFan, Byte(encMsgs[i], 6))
        /\ (encPump = 50 * Scale /\ encFan = 0)
              => (Byte(encMsgs[i], 2) = 127 /\ Byte(encMsgs[i], 6) = 0)

C7_Witness ==
    /\ encPump = 50 * Scale /\ encFan = 0
    /\ encMsgs # <<>>
    /\ Byte(encMsgs[1], 2) = 127 /\ Byte(encMsgs[1], 6) = 0

\* C8: every emitted frame has identifier 0x18FF408F and 8 data bytes, those
\* at offsets 0, 1, 3, 4, 5, 7 being 0; the bytes at offsets 2 and 6 lie in
\* 0..255, speed 0 encoded as 0 and speed 100 as 255.
C8_FrameLayout ==
    \A i \in DOMAIN frames :
        LET m == frames[i].msg
        IN  /\ m.id = 419381391
            /\ DOMAIN m.data = 1..8
            /\ \A o \in {0, 1, 3, 4, 5, 7} : Byte(m, o) = 0
            /\ Byte(m, 2) \in 0..255 /\ Byte(m, 6) \in 0..255
            /\ frames[i].pump = 0 => Byte(m, 2) = 0
            /\ frames[i].fan = 0 => Byte(m, 6) = 0
            /\ frames[i].pump = Percent100 => Byte(m, 2) = 255
            /\ frames[i].fan = Percent100 => Byte(m, 6) = 255

C8_Witness ==
    /\ frames # <<>>
    /\ frames[1].pump = Percent100 /\ Byte(frames[1].msg, 2) = 255
    /\ frames[1].fan \in 1..(Percent100 - 1)

\* C9: from OFF, a tick with inactive ignition leaves the state OFF and a
\* tick with active ignition moves it to ON; OFF changes only on a tick;
\* from ON the state is never OFF again.
C9_IgnitionTransitions ==
    /\ currentState = "OFF"
    /\ [][/\ (currentState = "OFF" /\ tick' # tick /\ ~ignitionSwitch')
                => currentState' = "OFF"
          /\ (currentState = "OFF" /\ tick' # tick /\ ignitionSwitch')
                => currentState' = "ON"
          /\ (currentState = "OFF" /\ tick' = tick) => currentState' = "OFF"
          /\ currentState = "ON"
                => currentState' \in {"ON", "SAFETY_SHUTDOWN"}]_vars

C9_Witness ==
    tick >= 2 /\ tickState = "OFF" /\ ignitionSwitch /\ currentState = "ON"

\* e_k of the k-th call recorded, e_0 = 0, and e_1 + ... + e_k.
Err(k) == IF k = 0 THEN 0 ELSE pidCalls[k][1] - pidCalls[k][2]

RECURSIVE SumErr(_)
SumErr(k) == IF k = 0 THEN 0 ELSE SumErr(k - 1) + Err(k)

\* C10: the n-th compute call on an instance returns
\* Kp*e_n + Ki*(e_1 + ... + e_n) + Kd*(e_n - e_(n-1)), e_0 = 0: the integral
\* is the unclamped sum of all errors including the current one and the
\* output is not clamped.
C10_ComputeRecurrence ==
    LET n == Len(pidCalls)
    IN  n > 0 =>
          /\ pidOut = pid.Kp * Err(n) + pid.Ki * SumErr(n)
                         + pid.Kd * (Err(n) - Err(n - 1))
          /\ pid.integral = SumErr(n)
          /\ pid.prevError = Err(n)

C10_Witness ==
    LET n == Len(pidCalls)
    IN  /\ n >= 2
        /\ pidOut < 0
        /\ Err(n) # Err(n - 1) /\ Err(n - 1) # 0
        /\ SumErr(n) # Err(n)

\* |x - target| <= tol, all in hundredths.
Near(x, target, tol) == x - target <= tol /\ target - x <= tol

\* C11: with gains (1.0, 0.1, 0.01) the first call compute(50, 45) returns
\* a value within 0.1 of 5.5, and the following call compute(50, 50) on the
\* same instance returns a value within 0.1 of 0.
C11_TestExpectations ==
    (pid.Kp = 100 /\ pid.Ki = 10 /\ pid.Kd = 1)
        => /\ pidCalls = <<<<50, 45>>>> => Near(pidOut, 550, 10)
           /\ pidCalls = <<<<50, 45>>, <<50, 50>>>> => Near(pidOut, 0, 10)

\* The claimed step function over the decimal breakpoints.
ClaimedTemperature(v) ==
    IF v >= 4771 THEN -20
    ELSE IF v >= 4642 THEN -10
    ELSE IF v >= 4438 THEN 0
    ELSE IF v >= 4141 THEN 10
    ELSE IF v >= 3751 THEN 20
    ELSE IF v >= 3325 THEN 30
    ELSE IF v >= 2838 THEN 40
    ELSE IF v >= 2500 THEN 50
    ELSE IF v >= 1915 THEN 60
    ELSE IF v >= 1212 THEN 80
    ELSE IF v >= 749 THEN 100
    ELSE 120

\* C12: interpolateTemperature returns the temperature of the highest
\* breakpoint the voltage meets or exceeds, a voltage equal to a breakpoint
\* returns that breakpoint's temperature (4.771 gives -20, 2.838 gives 40),
\* and every voltage below 0.749 returns 120 (0.1 gives 120).
C12_StepFunction ==
    itTemps # <<>>
        => /\ itTemps[1] = ClaimedTemperature(itV1)
           /\ itV1 = 4771 => itTemps[1] = -20
           /\ itV1 = 2838 => itTemps[1] = 40
           /\ itV1 = 100 => itTemps[1] = 120

\* C13: interpolateTemperature is non-increasing in the voltage.
C13_Monotonic ==
    (itTemps # <<>> /\ itV1 < itV2) => itTemps[1] >= itTemps[2]

C13_Witness ==
    /\ itTemps # <<>>
    /\ itV1 < itV2
    /\ itV1 < 749 /\ itV2 >= 4771
    /\ itTemps[1] > itTemps[2]

\* C14 as stated: on an ON tick with sufficient coolant and a voltage below
\* 0.749 V the measured temperature is 120 and, for every configured
\* threshold, the tick ends in SAFETY_SHUTDOWN with (0,0) the last commands.
C14_BelowRangeShutsDown ==
    (RegulatedTick /\ sensorVoltage < 749)
        => /\ measuredTemperature = 120
           /\ currentState = "SAFETY_SHUTDOWN"
           /\ Len(cmds) = 4
           /\ cmds[3] = PumpCmd(0) /\ cmds[4] = FanCmd(0)

\* C14, amended: on such a tick the measured temperature is 120; for every
\* configured threshold below 120 the tick ends in SAFETY_SHUTDOWN with
\* (0,0) the last commands, and for a threshold of 120 or more the state
\* stays ON and the regulator commands are the last ones.
C14_BelowRangeShutsDownUnder120 ==
    (RegulatedTick /\ sensorVoltage < 749)
        => /\ measuredTemperature = 120
           /\ safetyThreshold < 120
                => /\ currentState = "SAFETY_SHUTDOWN"
                   /\ Len(cmds) = 4
                   /\ cmds[3] = PumpCmd(0) /\ cmds[4] = FanCmd(0)
           /\ safetyThreshold >= 120
                => (currentState = "ON" /\ Len(cmds) = 2)

C14_Witness ==
    /\ RegulatedTick /\ sensorVoltage < 749
    /\ safetyThreshold < 120
    /\ measuredTemperature = 120
    /\ currentState = "SAFETY_SHUTDOWN" /\ Len(cmds) = 4

\* C15: the accumulated and previous error of both regulators and the
\* stored pumpSpeed and fanSpeed change only on a tick evaluated in ON that
\* reads sufficient coolant, on which each regulator's compute runs exactly
\* once; OFF ticks, the low-coolant tick and everything after the shutdown
\* leave them unchanged.
C15_RegulationGated ==
    [][LET changed == \/ pumpPID' # pumpPID \/ fanPID' # fanPID
                      \/ pumpSpeed' # pumpSpeed \/ fanSpeed' # fanSpeed
           regulated == currentState = "ON" /\ tick' # tick /\ levelSwitch'
           error == tempSetpoint - measuredTemperature'
       IN  /\ changed => regulated
           /\ regulated
                => /\ pumpPID'.integral = pumpPID.integral + error
                   /\ fanPID'.integral = fanPID.integral + error
                   /\ pumpPID'.prevError = error
                   /\ fanPID'.prevError = error]_vars

C15_Witness ==
    /\ pc = "exited"
    /\ ~levelSwitch
    /\ pumpPID.integral # 0 /\ fanPID.prevError # 0
    /\ pumpSpeed > 0 /\ fanSpeed > 0

\* C16 as stated: in each tick the state machine is evaluated, then the
\* frame is emitted, then the loop waits; the frame never follows the wait.
C16_FrameBeforeWait ==
    /\ (pc = "switch" /\ tick > 0) => steps = <<"switch", "frame", "sleep">>
    /\ \A i, j \in DOMAIN steps :
          (steps[i] = "sleep" /\ steps[j] = "frame") => j < i

\* C16, amended: in each tick evaluated in OFF or ON the state machine is
\* evaluated, then the loop waits, then the frame is emitted; the frame never
\* precedes the wait.
C16_WaitBeforeFrame ==
    /\ (pc = "switch" /\ tick > 0) => steps = <<"switch", "sleep", "frame">>
    /\ \A i, j \in DOMAIN steps :
          (steps[i] = "sleep" /\ steps[j] = "frame") => i < j
    /\ pc = "can" => steps = <<"switch", "sleep">>
    /\ pc = "sleep" => steps = <<"switch">>

C16_Witness ==
    /\ pc = "switch" /\ tickState = "ON"
    /\ steps = <<"switch", "sleep", "frame">>
    /\ Len(frames) = 1 /\ frames[1].pump > 0

\* Error of the k-th regulated tick of the loop (0 for k = 0) and the sum of
\* the first k.
TickErr(k) == IF k = 0 THEN 0 ELSE tempSetpoint - measuredLog[k]

RECURSIVE SumTickErr(_)
SumTickErr(k) == IF k = 0 THEN 0 ELSE SumTickErr(k - 1) + TickErr(k)

\* C17: pumpPID and fanPID are fed the same setpoint and temperature on the
\* same ticks: their accumulated errors are equal and their previous errors
\* are equal in every state, and the two outputs differ only by the gains.
C17_RegulatorsInStep ==
    LET n == Len(measuredLog)
    IN  /\ pumpPID.integral = fanPID.integral
        /\ pumpPID.prevError = fanPID.prevError
        /\ pumpPID.integral = SumTickErr(n)
        /\ pumpPID.prevError = TickErr(n)
        /\ RegulatedTick
              => /\ pumpOut = 50 * TickErr(n) + 10 * SumTickErr(n)
                                + 5 * (TickErr(n) - TickErr(n - 1))
                 /\ fanOut = 40 * TickErr(n) + 10 * SumTickErr(n)
                                + 3 * (TickErr(n) - TickErr(n - 1))

C17_Witness ==
    /\ RegulatedTick
    /\ Len(measuredLog) >= 2
    /\ pumpPID.integral # 0 /\ pumpPID.prevError # 0
    /\ measuredLog[Len(measuredLog)] # measuredLog[Len(measuredLog) - 1]
    /\ pumpOut # fanOut

\* No regulated tick so far measured a temperature below the setpoint.
NeverBelowSetpoint == \A i \in DOMAIN measuredLog : measuredLog[i] >= tempSetpoint

\* C18: while every regulated tick so far measured a temperature at or above
\* the setpoint, every pump and fan command applied is exactly 0; a nonzero
\* command needs an earlier regulated tick below the setpoint.
C18_NoDriveAboveSetpoint ==
    NeverBelowSetpoint
        => /\ pumpSpeed = 0 /\ fanSpeed = 0
           /\ \A i \in DOMAIN cmds : cmds[i].speed = 0
           /\ \A i \in DOMAIN frames : frames[i].pump = 0 /\ frames[i].fan = 0

C18_Witness ==
    /\ NeverBelowSetpoint
    /\ RegulatedTick
    /\ Len(measuredLog) >= 2
    /\ measuredLog[Len(measuredLog)] < measuredLog[Len(measuredLog) - 1]
    /\ pumpOut < 0 /\ fanOut < 0
    /\ cmds[1].speed = 0 /\ cmds[2].speed = 0

\* C19: with the default threshold and the emulated inputs the loop leaves
\* OFF on the first tick, eventually enters SAFETY_SHUTDOWN, and the tick
\* after that returns 0 from main with no actuator command and no frame.
C19_EmulatedRunTerminates ==
    /\ [](tick >= 1 => currentState # "OFF")
    /\ <>(currentState = "SAFETY_SHUTDOWN")
    /\ <>(pc = "exited")
    /\ [](pc = "exited"
            => /\ exitCode = 0
               /\ tickState = "SAFETY_SHUTDOWN"
               /\ cmds = <<>> /\ frames = <<>>)
    /\ [][(currentState = "SAFETY_SHUTDOWN" /\ tick' # tick)
            => pc' = "exited"]_vars

C19_Witness ==
    /\ simulated /\ safetyThreshold = 70
    /\ pc = "exited" /\ exitCode = 0
    /\ Len(measuredLog) >= 2
    /\ measuredLog[Len(measuredLog)] = 100
    /\ cmds = <<>> /\ frames = <<>>
====
